---- MODULE Spec2Model ----
(***************************************************************************)
(* spendlog: a double-entry ledger CLI over a relational store.            *)
(*                                                                         *)
(* The store is the two tables of setup_db (ledgers, proceedings).  Every  *)
(* action but Exit and Tick is one CLI invocation (one arm of main's match) *)
(* together with the WalletDB method it calls.  `result` is what the       *)
(* invocation reported: its error kind ("none" on success), the number of  *)
(* statements it sent to the store, and, for a report, the rows and totals *)
(* printed.  Exit is the process ending; the next invocation starts from   *)
(* the idle prompt.  Narrations and ledger names pass through unread and   *)
(* are left out.  Statements that write may fail in the store; so may      *)
(* query_one, when it does not get exactly one row.                        *)
(*                                                                         *)
(* `sessions` is for two invocations that run at the same time, statement  *)
(* by statement on the one store (specification SpecSessions); elsewhere   *)
(* nothing runs beside the one invocation and it does not change.          *)
(*                                                                         *)
(* Instants are whole seconds since 1970-01-01 00:00:00 UTC; amounts       *)
(* (f64 in the source) are whole numbers, so sums are exact.               *)
(***************************************************************************)
EXTENDS Integers, Sequences, FiniteSets, TLC

VARIABLES ledgers, proceedings, nextLedgerId, nextProceedingId, now, result,
          sessions

vars == <<ledgers, proceedings, nextLedgerId, nextProceedingId, now, result,
          sessions>>

store == <<ledgers, proceedings, nextLedgerId, nextProceedingId>>

(***************************************************************************)
(* Bounds of the model.                                                    *)
(***************************************************************************)
\* ledgers ever created (SERIAL ids 1..MaxLedgers)
MaxLedgers == 2

\* postings ever created (SERIAL ids 1..MaxProceedings)
MaxProceedings == 2

(***************************************************************************)
(* chrono: calendar arithmetic (proleptic Gregorian, UTC).                 *)
(***************************************************************************)
SecondsPerDay == 86400

SecondsPerHour == 3600

SecondsPerMinute == 60

IsLeapYear(y) == (y % 4 = 0 /\ y % 100 # 0) \/ y % 400 = 0

DaysInMonth(y, m) ==
    IF m = 2 THEN (IF IsLeapYear(y) THEN 29 ELSE 28)
    ELSE IF m \in {4, 6, 9, 11} THEN 30 ELSE 31

\* NaiveDate::from_ymd: days since 1970-01-01 of a valid civil date
DaysFromCivil(y, m, d) ==
    LET yy  == IF m <= 2 THEN y - 1 ELSE y
        era == yy \div 400
        yoe == yy - era * 400
        mp  == (m + 9) % 12
        doy == (153 * mp + 2) \div 5 + d - 1
        doe == yoe * 365 + yoe \div 4 - yoe \div 100 + doy
    IN  era * 146097 + doe - 719468

\* Datelike::{year, month, day} of a day number
CivilFromDays(z) ==
    LET zz  == z + 719468
        era == zz \div 146097
        doe == zz - era * 146097
        yoe == (doe - doe \div 1460 + doe \div 36524 - doe \div 146096) \div 365
        doy == doe - (365 * yoe + yoe \div 4 - yoe \div 100)
        mp  == (5 * doy + 2) \div 153
        d   == doy - (153 * mp + 2) \div 5 + 1
        m   == IF mp < 10 THEN mp + 3 ELSE mp - 9
        y   == yoe + era * 400 + (IF m <= 2 THEN 1 ELSE 0)
    IN  [year |-> y, month |-> m, day |-> d]

\* the date of an instant, as a day number
DayOf(t) == t \div SecondsPerDay

\* Timelike::{hour, minute, second}
HourOf(t) == (t % SecondsPerDay) \div SecondsPerHour

MinuteOf(t) == (t % SecondsPerHour) \div SecondsPerMinute

SecondOf(t) == t % SecondsPerMinute

\* Weekday::num_days_from_monday (1970-01-01 was a Thursday)
NumDaysFromMonday(t) == (DayOf(t) + 3) % 7

\* NaiveDate::and_hms_opt(h, m, s)
AndHms(day, h, m, s) ==
    day * SecondsPerDay + h * SecondsPerHour + m * SecondsPerMinute + s

(***************************************************************************)
(* A date argument is the text YYYY-MM-DD, here the triple of its numbers. *)
(* NaiveDate::parse_from_str accepts it iff it names a day of the          *)
(* calendar.                                                               *)
(***************************************************************************)
ParseDate(s) ==
    IF s[2] \in 1..12 /\ s[3] \in 1..DaysInMonth(s[1], s[2])
    THEN [ok |-> TRUE, day |-> DaysFromCivil(s[1], s[2], s[3])]
    ELSE [ok |-> FALSE, day |-> 0]

(***************************************************************************)
(* Inputs.                                                                 *)
(***************************************************************************)
Codes == {"CARD", "FOOD"}

\* add-ledger arguments (code, kind)
LedgerInputs == {<<"CARD", "LIABILITY">>, <<"FOOD", "EXPENSE">>}

Amounts == {-5, 0, 30, 50}

\* --date / --from / --to arguments; the last one is no day of the calendar
DateStrs == {<<2025, 6, 1>>, <<2025, 6, 2>>, <<2025, 6, 31>>}

NoDate == <<>>

\* readings of the clock: Sunday 2025-06-01 and Monday 2025-06-02,
\* at 00:00:00 and at 12:30:15
ClockDays == {DaysFromCivil(2025, 6, 1), DaysFromCivil(2025, 6, 2)}

ClockTimes == {AndHms(0, 0, 0, 0), AndHms(0, 12, 30, 15)}

Instants == {d * SecondsPerDay + t : d \in ClockDays, t \in ClockTimes}

FirstInstant == CHOOSE t \in Instants : \A u \in Instants : t <= u

\* no invocation is running
Idle == [op |-> "idle", err |-> "none", queries |-> 0]

\* the invocations that run at the same time
Sessions == {1, 2}

\* a session between invocations, after one of `op` that ended with `err`
Ended(op, err) ==
    [pc |-> "idle", op |-> op, err |-> err, patron |-> "", outlay |-> "",
     amount |-> 0, patron_id |-> 0, outlay_id |-> 0]

NoSessions == [s \in Sessions |-> Ended("none", "none")]

(***************************************************************************)
(* Store queries.                                                          *)
(***************************************************************************)
\* SUM(amount) over the rows of a sequence of postings
RECURSIVE SumAmounts(_)
SumAmounts(rows) ==
    IF rows = <<>> THEN 0 ELSE Head(rows).amount + SumAmounts(Tail(rows))

\* SELECT id FROM ledgers WHERE code = $1, through Client::query_one, which
\* is an error of the store unless exactly one row comes back
retrieve_ledger_id(code) ==
    LET rows == {l \in ledgers : l.code = code}
    IN  IF Cardinality(rows) = 1
        THEN [err |-> "none", id |-> (CHOOSE l \in rows : TRUE).id]
        ELSE [err |-> "Database", id |-> 0]

(***************************************************************************)
(* add-ledger                                                              *)
(***************************************************************************)
add_ledger(code, kind, insertOk) ==
    IF insertOk
    THEN /\ ledgers' = ledgers \cup {[id |-> nextLedgerId, code |-> code, kind |-> kind]}
         /\ nextLedgerId' = nextLedgerId + 1
         /\ result' = [op |-> "add_ledger", err |-> "none", queries |-> 1,
                       code |-> code]
    ELSE /\ UNCHANGED <<ledgers, nextLedgerId>>
         /\ result' = [op |-> "add_ledger", err |-> "Database", queries |-> 1,
                       code |-> code]

AddLedger ==
    /\ result = Idle
    /\ nextLedgerId <= MaxLedgers
    /\ \E in \in LedgerInputs, insertOk \in BOOLEAN :
          add_ledger(in[1], in[2], insertOk)
    /\ UNCHANGED <<proceedings, nextProceedingId, now, sessions>>

(***************************************************************************)
(* spend                                                                   *)
(***************************************************************************)
\* date is the --date argument the invocation was given (NoDate if none)
SpendResult(patron, outlay, amount, date, err, queries) ==
    [op |-> "spend", err |-> err, queries |-> queries,
     patron |-> patron, outlay |-> outlay, amount |-> amount, date |-> date]

\* a faulty test, `amount < 0.0`, which lets a zero amount through
InvalidAmountMutant(amount) == amount < 0

\* if amount <= 0.0 { return Err(InvalidAmount) }
InvalidAmount(amount) == amount <= 0

\* a faulty INSERT, with patron_id and outlay_id in each other's place
InsertedRowMutant(patron_id, outlay_id, amount, created_at) ==
    [id |-> nextProceedingId, cr_from |-> outlay_id, db_to |-> patron_id,
     amount |-> amount,
     created_at |-> IF created_at.some THEN created_at.at ELSE now]

\* the row of INSERT INTO proceedings (cr_from, db_to, amount, narration
\* [, created_at]) VALUES ($1, $2, $3, $4 [, $5])
InsertedRow(patron_id, outlay_id, amount, created_at) ==
    [id |-> nextProceedingId, cr_from |-> patron_id, db_to |-> outlay_id,
     amount |-> amount,
     created_at |-> IF created_at.some THEN created_at.at ELSE now]

\* created_at is Some(date at 00:00:00) or None (the store's CURRENT_TIMESTAMP)
proceed_spend(patron, outlay, amount, date, created_at, insertOk) ==
    LET patron_id == retrieve_ledger_id(patron)
        outlay_id == retrieve_ledger_id(outlay)
    IN  IF InvalidAmount(amount)
        THEN /\ result' = SpendResult(patron, outlay, amount, date, "InvalidAmount", 0)
             /\ UNCHANGED <<proceedings, nextProceedingId>>
        ELSE IF patron_id.err # "none"
        THEN /\ result' = SpendResult(patron, outlay, amount, date, patron_id.err, 1)
             /\ UNCHANGED <<proceedings, nextProceedingId>>
        ELSE IF outlay_id.err # "none"
        THEN /\ result' = SpendResult(patron, outlay, amount, date, outlay_id.err, 2)
             /\ UNCHANGED <<proceedings, nextProceedingId>>
        ELSE IF ~insertOk
        THEN /\ result' = SpendResult(patron, outlay, amount, date, "Database", 3)
             /\ UNCHANGED <<proceedings, nextProceedingId>>
        ELSE /\ proceedings' = Append(proceedings,
                    InsertedRow(patron_id.id, outlay_id.id, amount, created_at))
             /\ nextProceedingId' = nextProceedingId + 1
             /\ result' = SpendResult(patron, outlay, amount, date, "none", 3)

\* a faulty conversion that sets the time to 12:00:00
ExplicitCreatedAtMutant(naive_date) == AndHms(naive_date, 12, 0, 0)

\* Some(naive_date.and_hms_opt(0, 0, 0).unwrap())
ExplicitCreatedAt(naive_date) == AndHms(naive_date, 0, 0, 0)

\* main, Commands::Spend: parse --date, then proceed_spend
Spend ==
    /\ result = Idle
    /\ nextProceedingId <= MaxProceedings
    /\ \E patron \in Codes, outlay \in Codes, amount \in Amounts,
          date \in {NoDate} \cup DateStrs, insertOk \in BOOLEAN :
          IF date # NoDate /\ ~ParseDate(date).ok
          THEN /\ result' = SpendResult(patron, outlay, amount, date, "InvalidDate", 0)
               /\ UNCHANGED <<proceedings, nextProceedingId>>
          ELSE proceed_spend(patron, outlay, amount, date,
                   IF date = NoDate THEN [some |-> FALSE, at |-> 0]
                   ELSE [some |-> TRUE, at |-> ExplicitCreatedAt(ParseDate(date).day)],
                   insertOk)
    /\ UNCHANGED <<ledgers, nextLedgerId, now, sessions>>

(***************************************************************************)
(* Period resolution (the same code in generate_spending_report and in     *)
(* generate_ledger_report).                                                *)
(***************************************************************************)
Period(kind, date, from, to) ==
    [kind |-> kind, date |-> date, from |-> from, to |-> to]

NamedPeriods == {Period(k, NoDate, NoDate, NoDate) : k \in {"Today", "Week", "Month", "All"}}

Window(err, start, hasEnd, end) ==
    [err |-> err, start |-> start, hasEnd |-> hasEnd, end |-> end]

\* a faulty truncation that leaves the hour in place
TodayStartMutant(t) ==
    t - MinuteOf(t) * SecondsPerMinute - SecondOf(t)

\* now.with_hour(0).with_minute(0).with_second(0).with_nanosecond(0)
TodayStart(t) ==
    t - HourOf(t) * SecondsPerHour - MinuteOf(t) * SecondsPerMinute - SecondOf(t)

\* now - days(num_days_from_monday) + hours(0) - minutes(minute) - seconds(second)
WeekStart(t) ==
    t - NumDaysFromMonday(t) * SecondsPerDay + 0 * SecondsPerHour
      - MinuteOf(t) * SecondsPerMinute - SecondOf(t)

\* now.with_day(1), then the time of day zeroed as for Today
MonthStart(t) ==
    LET c == CivilFromDays(DayOf(t))
    IN  AndHms(DaysFromCivil(c.year, c.month, 1), 0, 0, 0)

\* "1970-01-01 00:00:00"
AllStart == AndHms(DaysFromCivil(1970, 1, 1), 0, 0, 0)

\* a faulty FromTo arm, without the test from_date > to_date
ResolveFromToMutant(from, to) ==
    LET from_date == ParseDate(from)
        to_date   == ParseDate(to)
    IN  IF ~from_date.ok THEN Window("InvalidDate", 0, FALSE, 0)
        ELSE IF ~to_date.ok THEN Window("InvalidDate", 0, FALSE, 0)
        ELSE Window("none", AndHms(from_date.day, 0, 0, 0),
                    TRUE, AndHms(to_date.day, 23, 59, 59))

\* the FromTo arm: parse both dates, then from_date > to_date is an error
ResolveFromTo(from, to) ==
    LET from_date == ParseDate(from)
        to_date   == ParseDate(to)
    IN  IF ~from_date.ok THEN Window("InvalidDate", 0, FALSE, 0)
        ELSE IF ~to_date.ok THEN Window("InvalidDate", 0, FALSE, 0)
        ELSE IF from_date.day > to_date.day
        THEN Window("DateRangeError", 0, FALSE, 0)
        ELSE Window("none", AndHms(from_date.day, 0, 0, 0),
                    TRUE, AndHms(to_date.day, 23, 59, 59))

ResolvePeriod(period, t) ==
    CASE period.kind = "Today" -> Window("none", TodayStart(t), FALSE, 0)
      [] period.kind = "Week"  -> Window("none", WeekStart(t), FALSE, 0)
      [] period.kind = "Month" -> Window("none", MonthStart(t), FALSE, 0)
      [] period.kind = "All"   -> Window("none", AllStart, FALSE, 0)
      [] period.kind = "Date"  ->
            LET date == ParseDate(period.date)
            IN  IF ~date.ok THEN Window("InvalidDate", 0, FALSE, 0)
                ELSE Window("none", AndHms(date.day, 0, 0, 0),
                            TRUE, AndHms(date.day, 23, 59, 59))
      [] period.kind = "FromTo" -> ResolveFromTo(period.from, period.to)

(***************************************************************************)
(* main's match on (period, --date, --from, --to), the same for report and *)
(* ledger-report.  An absent argument is NoDate / NoPeriod.                *)
(***************************************************************************)
NoPeriod == Period("None", NoDate, NoDate, NoDate)

\* a faulty match whose first arm does not look at --date
MatchPeriodMutant(a) ==
    LET p == a.period # NoPeriod
        d == a.date # NoDate
        f == a.from # NoDate
        t == a.to # NoDate
    IN  IF p /\ ~f /\ ~t THEN [err |-> "none", period |-> a.period]
        ELSE IF ~p /\ d /\ ~f /\ ~t
        THEN [err |-> "none", period |-> Period("Date", a.date, NoDate, NoDate)]
        ELSE IF ~p /\ ~d /\ f /\ t
        THEN [err |-> "none", period |-> Period("FromTo", NoDate, a.from, a.to)]
        ELSE IF ~p /\ ~d /\ ~f /\ ~t
        THEN [err |-> "none", period |-> Period("All", NoDate, NoDate, NoDate)]
        ELSE [err |-> "InvalidDate", period |-> NoPeriod]

\* match (period, date, from, to) { ... }
MatchPeriod(a) ==
    LET p == a.period # NoPeriod
        d == a.date # NoDate
        f == a.from # NoDate
        t == a.to # NoDate
    IN  IF p /\ ~d /\ ~f /\ ~t THEN [err |-> "none", period |-> a.period]
        ELSE IF ~p /\ d /\ ~f /\ ~t
        THEN [err |-> "none", period |-> Period("Date", a.date, NoDate, NoDate)]
        ELSE IF ~p /\ ~d /\ f /\ t
        THEN [err |-> "none", period |-> Period("FromTo", NoDate, a.from, a.to)]
        ELSE IF ~p /\ ~d /\ ~f /\ ~t
        THEN [err |-> "none", period |-> Period("All", NoDate, NoDate, NoDate)]
        ELSE [err |-> "InvalidDate", period |-> NoPeriod]

\* the arguments tried: every value where the shape is accepted, one value
\* per argument where it is rejected
OneDate == CHOOSE s \in DateStrs : ParseDate(s).ok

OnePeriod == Period("Today", NoDate, NoDate, NoDate)

ReportInputs ==
    {a \in [period : NamedPeriods \cup {NoPeriod}, date : DateStrs \cup {NoDate},
            from : DateStrs \cup {NoDate}, to : DateStrs \cup {NoDate}] :
        \/ MatchPeriod(a).err = "none"
        \/ /\ a.period \in {NoPeriod, OnePeriod}
           /\ a.date \in {NoDate, OneDate}
           /\ a.from \in {NoDate, OneDate}
           /\ a.to \in {NoDate, OneDate}}

\* the orders a query may return the rows S in (rows with equal keys come in
\* any order)
Orderings(S) ==
    {s \in [1..Cardinality(S) -> S] :
        \A i, j \in 1..Cardinality(S) : i # j => s[i] # s[j]}

\* ORDER BY amount DESC
OrderedByAmountDesc(S) ==
    {s \in Orderings(S) :
        \A i \in 1..Cardinality(S) - 1 : s[i].amount >= s[i + 1].amount}

\* ORDER BY p.created_at DESC
OrderedByCreatedAtDesc(S) ==
    {s \in Orderings(S) :
        \A i \in 1..Cardinality(S) - 1 : s[i].created_at >= s[i + 1].created_at}

RECURSIVE SumField(_, _)
SumField(rows, f) ==
    IF rows = <<>> THEN 0 ELSE Head(rows)[f] + SumField(Tail(rows), f)

(***************************************************************************)
(* report                                                                  *)
(***************************************************************************)
\* the WHERE clause on created_at of the query chosen for the period
SpendingInWindow(period, w, p) ==
    CASE period.kind = "All"  -> TRUE
      [] period.kind = "Date" -> p.created_at >= w.start /\ p.created_at <= w.end
      [] OTHER                -> p.created_at >= w.start

\* a faulty CASE that takes the credits off for every kind of ledger
NetAmountMutant(l, period, w) ==
    LET debits  == SumAmounts(SelectSeq(proceedings,
                       LAMBDA p : p.db_to = l.id /\ SpendingInWindow(period, w, p)))
        credits == SumAmounts(SelectSeq(proceedings,
                       LAMBDA p : p.cr_from = l.id /\ SpendingInWindow(period, w, p)))
    IN  debits - credits

\* the CASE on l.kind of the query
NetAmount(l, period, w) ==
    LET debits  == SumAmounts(SelectSeq(proceedings,
                       LAMBDA p : p.db_to = l.id /\ SpendingInWindow(period, w, p)))
        credits == SumAmounts(SelectSeq(proceedings,
                       LAMBDA p : p.cr_from = l.id /\ SpendingInWindow(period, w, p)))
    IN  IF l.kind = "LIABILITY" THEN debits - credits ELSE debits

\* a row carries the id of the ledger it was computed for
SpendingRows(period, w) ==
    OrderedByAmountDesc({[id |-> l.id, code |-> l.code,
                          amount |-> NetAmount(l, period, w)] : l \in ledgers})

ReportResult(op, args, code, period, err, queries, w, rows, totals) ==
    [op |-> op, err |-> err, queries |-> queries, args |-> args, code |-> code,
     period |-> period, window |-> w, rows |-> rows, totals |-> totals]

NoWindow == Window("none", 0, FALSE, 0)

generate_spending_report(args, period) ==
    LET w == ResolvePeriod(period, now)
    IN  IF w.err # "none"
        THEN result' = ReportResult("report", args, "", period, w.err, 0, w, <<>>, <<>>)
        ELSE \E rows \in SpendingRows(period, w) :
                result' = ReportResult("report", args, "", period, "none", 1, w, rows,
                                       <<SumField(rows, "amount")>>)

\* main, Commands::Report
Report ==
    /\ result = Idle
    /\ \E a \in ReportInputs :
          LET m == MatchPeriod(a)
          IN  IF m.err # "none"
              THEN result' = ReportResult("report", a, "", NoPeriod, m.err, 0,
                                          NoWindow, <<>>, <<>>)
              ELSE generate_spending_report(a, m.period)
    /\ UNCHANGED <<store, now, sessions>>

(***************************************************************************)
(* ledger-report                                                           *)
(***************************************************************************)
\* (SELECT code FROM ledgers WHERE id = $1)
CodeOf(id) ==
    IF \E l \in ledgers : l.id = id
    THEN (CHOOSE l \in ledgers : l.id = id).code
    ELSE "NULL"

\* the WHERE clause on created_at of the query chosen for the period
LedgerInWindow(period, w, p) ==
    CASE period.kind = "All" -> TRUE
      [] period.kind \in {"Date", "FromTo"} ->
            p.created_at >= w.start /\ p.created_at <= w.end
      [] OTHER -> p.created_at >= w.start

\* a faulty SELECT list with the two amount columns exchanged
LedgerRowMutant(ledger_id, p) ==
    [id |-> p.id,
     created_at |-> p.created_at,
     counterparty |-> IF p.cr_from = ledger_id THEN CodeOf(p.db_to) ELSE CodeOf(p.cr_from),
     credit_amount |-> IF p.db_to = ledger_id THEN p.amount ELSE 0,
     debit_amount |-> IF p.cr_from = ledger_id THEN p.amount ELSE 0]

\* the SELECT list of the query, for the posting p and the ledger $1
LedgerRow(ledger_id, p) ==
    [id |-> p.id,
     created_at |-> p.created_at,
     counterparty |-> IF p.cr_from = ledger_id THEN CodeOf(p.db_to) ELSE CodeOf(p.cr_from),
     credit_amount |-> IF p.cr_from = ledger_id THEN p.amount ELSE 0,
     debit_amount |-> IF p.db_to = ledger_id THEN p.amount ELSE 0]

LedgerRows(ledger_id, period, w) ==
    OrderedByCreatedAtDesc(
        {LedgerRow(ledger_id, proceedings[i]) :
            i \in {j \in DOMAIN proceedings :
                      /\ proceedings[j].cr_from = ledger_id
                            \/ proceedings[j].db_to = ledger_id
                      /\ LedgerInWindow(period, w, proceedings[j])}})

\* faulty totals, with net_balance = total_credits - total_debits
LedgerTotalsMutant(rows) ==
    LET total_credits == SumField(rows, "credit_amount")
        total_debits  == SumField(rows, "debit_amount")
    IN  <<total_credits, total_debits, total_credits - total_debits>>

\* total_credits, total_debits, net_balance
LedgerTotals(rows) ==
    LET total_credits == SumField(rows, "credit_amount")
        total_debits  == SumField(rows, "debit_amount")
    IN  <<total_credits, total_debits, total_debits - total_credits>>

generate_ledger_report(args, ledger_code, period) ==
    LET ledger_id == retrieve_ledger_id(ledger_code)
        w == ResolvePeriod(period, now)
    IN  IF ledger_id.err # "none"
        THEN result' = ReportResult("ledger_report", args, ledger_code, period,
                                    ledger_id.err, 1, NoWindow, <<>>, <<>>)
        ELSE IF w.err # "none"
        THEN result' = ReportResult("ledger_report", args, ledger_code, period,
                                    w.err, 2, w, <<>>, <<>>)
        ELSE \E rows \in LedgerRows(ledger_id.id, period, w) :
                result' = ReportResult("ledger_report", args, ledger_code, period,
                                       "none", 3, w, rows, LedgerTotals(rows))

\* main, Commands::LedgerReport
LedgerReport ==
    /\ result = Idle
    /\ \E code \in Codes, a \in ReportInputs :
          LET m == MatchPeriod(a)
          IN  IF m.err # "none"
              THEN result' = ReportResult("ledger_report", a, code, NoPeriod, m.err, 0,
                                          NoWindow, <<>>, <<>>)
              ELSE generate_ledger_report(a, code, m.period)
    /\ UNCHANGED <<store, now, sessions>>

(***************************************************************************)
(* calendar                                                                *)
(*                                                                         *)
(* The two positional arguments are texts; an absent one is NoArg.  An f64 *)
(* is a whole number or NaN.                                               *)
(***************************************************************************)
NoArg == ""

F64(v) == [nan |-> FALSE, v |-> v]

NaN == [nan |-> TRUE, v |-> 0]

\* str::parse::<f64>, on the texts tried: a decimal numeral parses to its
\* value, "nan" (in any case) parses to NaN, a word is an error
ParseF64(s) ==
    CASE s = "50"  -> [ok |-> TRUE, val |-> F64(50)]
      [] s = "0"   -> [ok |-> TRUE, val |-> F64(0)]
      [] s = "-5"  -> [ok |-> TRUE, val |-> F64(0 - 5)]
      [] s = "nan" -> [ok |-> TRUE, val |-> NaN]
      [] OTHER     -> [ok |-> FALSE, val |-> F64(0)]

\* cap_num <= 0.0 (false of NaN, as every comparison with NaN is)
F64LeZero(x) == ~x.nan /\ x.v <= 0

\* difference > 0.0
F64GtZero(x) == ~x.nan /\ x.v > 0

\* cap_value - daily_amount
F64Minus(x, y) == IF x.nan THEN NaN ELSE F64(x.v - y)

\* Option<f64>
SomeCap(val) == [some |-> TRUE, val |-> val]

NoCap == [some |-> FALSE, val |-> F64(0)]

\* str::to_lowercase, on the texts tried
ToLowercase(s) ==
    CASE s = "JUNE" -> "june"
      [] s = "June" -> "june"
      [] s = "DECEMBER" -> "december"
      [] OTHER -> s

\* the match on month_str_lower, then Month::number_from_month; 0 stands for
\* the arm that returns InvalidMonth
MonthNumber(month_str_lower) ==
    CASE month_str_lower = "january"   -> 1
      [] month_str_lower = "february"  -> 2
      [] month_str_lower = "march"     -> 3
      [] month_str_lower = "april"     -> 4
      [] month_str_lower = "may"       -> 5
      [] month_str_lower = "june"      -> 6
      [] month_str_lower = "july"      -> 7
      [] month_str_lower = "august"    -> 8
      [] month_str_lower = "september" -> 9
      [] month_str_lower = "october"   -> 10
      [] month_str_lower = "november"  -> 11
      [] month_str_lower = "december"  -> 12
      [] OTHER -> 0

\* a faulty test, `month_number >= current_month`
TargetYearMutant(month_number, current_month, current_year) ==
    IF month_number >= current_month THEN current_year - 1 ELSE current_year

\* if month_number > current_month { current_year - 1 } else { current_year }
TargetYear(month_number, current_month, current_year) ==
    IF month_number > current_month THEN current_year - 1 ELSE current_year

\* (target_month, target_year) of month_arg at the instant t
Target(month_arg, t) ==
    LET current == CivilFromDays(DayOf(t))
        month_number == MonthNumber(ToLowercase(month_arg))
    IN  IF month_arg = NoArg
        THEN [err |-> "none", month |-> current.month, year |-> current.year]
        ELSE IF month_number = 0
        THEN [err |-> "InvalidMonth", month |-> 0, year |-> 0]
        ELSE [err |-> "none", month |-> month_number,
              year |-> TargetYear(month_number, current.month, current.year)]

\* start_date: the first of the target month at 00:00:00
CalendarStart(target) == AndHms(DaysFromCivil(target.year, target.month, 1), 0, 0, 0)

\* end_date: the end of today in the current month, else 23:59:59 of the day
\* before the first of the next month
CalendarEnd(target, t) ==
    LET current == CivilFromDays(DayOf(t))
        next_month == IF target.month = 12
                      THEN DaysFromCivil(target.year + 1, 1, 1)
                      ELSE DaysFromCivil(target.year, target.month + 1, 1)
    IN  IF target.month = current.month /\ target.year = current.year
        THEN AndHms(DayOf(t), 23, 59, 59)
        ELSE AndHms(next_month - 1, 23, 59, 59)

\* JOIN ledgers l ON p.db_to = l.id OR p.cr_from = l.id, WHERE p.created_at
\* >= $1 AND p.created_at <= $2: the pairs <<posting number, ledger>>
CalendarJoin(start, end) ==
    {<<i, l>> \in (DOMAIN proceedings) \X ledgers :
        /\ proceedings[i].db_to = l.id \/ proceedings[i].cr_from = l.id
        /\ proceedings[i].created_at >= start
        /\ proceedings[i].created_at <= end}

\* a faulty CASE that takes the credit off for every kind of ledger
DailyTermMutant(p, l) ==
    (IF p.db_to = l.id THEN p.amount ELSE 0)
       - (IF p.cr_from = l.id THEN p.amount ELSE 0)

\* the CASE on l.kind inside SUM, for one joined row
DailyTerm(p, l) ==
    IF l.kind = "LIABILITY"
    THEN (IF p.db_to = l.id THEN p.amount ELSE 0)
            - (IF p.cr_from = l.id THEN p.amount ELSE 0)
    ELSE (IF p.db_to = l.id THEN p.amount ELSE 0)

RECURSIVE SumDailyTerms(_)
SumDailyTerms(J) ==
    IF J = {} THEN 0
    ELSE LET j == CHOOSE x \in J : TRUE
         IN  DailyTerm(proceedings[j[1]], j[2]) + SumDailyTerms(J \ {j})

\* a query without the HAVING clause
HavingMutant(daily_amount) == TRUE

\* HAVING SUM(...) != 0
Having(daily_amount) == daily_amount # 0

\* GROUP BY DATE(p.created_at) HAVING ... : the rows (day, daily_amount)
CalendarGroups(start, end) ==
    LET J == CalendarJoin(start, end)
        days == {DayOf(proceedings[j[1]].created_at) : j \in J}
        daily_amount(day) ==
            SumDailyTerms({j \in J : DayOf(proceedings[j[1]].created_at) = day})
    IN  {[day |-> day, daily_amount |-> daily_amount(day)] :
            day \in {d \in days : Having(daily_amount(d))}}

\* ORDER BY DATE(p.created_at)
OrderedByDay(S) ==
    {s \in Orderings(S) : \A i \in 1..Cardinality(S) - 1 : s[i].day <= s[i + 1].day}

\* a faulty accumulation that adds the difference of every day
SkimpTermMutant(cap, daily_amount) ==
    LET difference == F64Minus(cap.val, daily_amount)
    IN  IF cap.some /\ ~difference.nan THEN difference.v ELSE 0

\* what one row adds to skimp: the difference if it is > 0.0, with a cap
SkimpTerm(cap, daily_amount) ==
    LET difference == F64Minus(cap.val, daily_amount)
    IN  IF cap.some /\ F64GtZero(difference) THEN difference.v ELSE 0

RECURSIVE SumSkimp(_, _)
SumSkimp(rows, cap) ==
    IF rows = <<>> THEN 0
    ELSE SkimpTerm(cap, Head(rows).daily_amount) + SumSkimp(Tail(rows), cap)

\* args are the two texts of the command line
CalendarResult(args, month_arg, cap, err, queries, target, start, end, rows, totals) ==
    [op |-> "calendar", err |-> err, queries |-> queries, args |-> args,
     month_arg |-> month_arg, cap |-> cap, target |-> target,
     start |-> start, end |-> end, rows |-> rows, totals |-> totals]

\* totals are grand_total and skimp
generate_calendar_report(args, month_arg, cap) ==
    LET target == Target(month_arg, now)
        start_date == CalendarStart(target)
        end_date == CalendarEnd(target, now)
    IN  IF target.err # "none"
        THEN result' = CalendarResult(args, month_arg, cap, target.err, 0, target,
                                      0, 0, <<>>, <<>>)
        ELSE \E rows \in OrderedByDay(CalendarGroups(start_date, end_date)) :
                result' = CalendarResult(args, month_arg, cap, "none", 1, target,
                              start_date, end_date, rows,
                              <<SumField(rows, "daily_amount"), SumSkimp(rows, cap)>>)

\* the cap of the arms that require one: it must parse, and not be <= 0.0
RequiredCap(c) ==
    LET cap_num == ParseF64(c)
    IN  IF ~cap_num.ok THEN [err |-> "InvalidCap", cap |-> NoCap]
        ELSE IF F64LeZero(cap_num.val) THEN [err |-> "InvalidCap", cap |-> NoCap]
        ELSE [err |-> "none", cap |-> SomeCap(cap_num.val)]

\* main's match (month.clone(), cap): which text is the month, which the cap
CalendarArgs(month, cap) ==
    IF month # NoArg /\ cap # NoArg
    THEN [err |-> RequiredCap(cap).err, month_arg |-> month, cap |-> RequiredCap(cap).cap]
    ELSE IF month # NoArg
    THEN IF ParseF64(month).ok
         THEN IF F64LeZero(ParseF64(month).val)
              THEN [err |-> "InvalidCap", month_arg |-> NoArg, cap |-> NoCap]
              ELSE [err |-> "none", month_arg |-> NoArg,
                    cap |-> SomeCap(ParseF64(month).val)]
         ELSE [err |-> "none", month_arg |-> month, cap |-> NoCap]
    ELSE IF cap # NoArg
    THEN [err |-> RequiredCap(cap).err, month_arg |-> NoArg, cap |-> RequiredCap(cap).cap]
    ELSE [err |-> "none", month_arg |-> NoArg, cap |-> NoCap]

\* main, Commands::Calendar
calendar(a) ==
    LET m == CalendarArgs(a.month, a.cap)
    IN  IF m.err # "none"
        THEN result' = CalendarResult(a, m.month_arg, m.cap, m.err, 0,
                                      [err |-> "none", month |-> 0, year |-> 0],
                                      0, 0, <<>>, <<>>)
        ELSE generate_calendar_report(a, m.month_arg, m.cap)

\* the texts tried as a month and as a cap
MonthTexts == {"june", "JUNE", "may", "july", "smarch"}

CapTexts == {"abc", "nan", "0", "-5", "50"}

CalendarArg(month, cap) == [month |-> month, cap |-> cap]

\* the command lines tried (the cap is the second positional argument, so it
\* is never there without the first): every month with no cap, a good cap
\* and "nan"; "june" with every cap; every cap text alone; a cap text twice
CalendarInputs ==
    {CalendarArg(NoArg, NoArg)}
      \cup {CalendarArg(m, c) : m \in {"june", "may", "july"}, c \in {NoArg, "50", "nan"}}
      \cup {CalendarArg(m, NoArg) : m \in MonthTexts \cup CapTexts}
      \cup {CalendarArg("june", c) : c \in CapTexts}
      \cup {CalendarArg("smarch", "50"), CalendarArg("50", "50")}

Calendar ==
    /\ result = Idle
    /\ \E a \in CalendarInputs : calendar(a)
    /\ UNCHANGED <<store, now, sessions>>

(***************************************************************************)
(* list-ledgers, last, db-setup                                            *)
(***************************************************************************)
\* the codes in the order of the store's collation
CodeOrder == <<"CARD", "FOOD">>

CodeRank(code) == CHOOSE i \in DOMAIN CodeOrder : CodeOrder[i] = code

\* ORDER BY code
OrderedByCode(S) ==
    {s \in Orderings(S) :
        \A i \in 1..Cardinality(S) - 1 : CodeRank(s[i].code) <= CodeRank(s[i + 1].code)}

\* SELECT code, name, sort, kind FROM ledgers ORDER BY code
list_ledgers ==
    \E rows \in OrderedByCode(ledgers) :
       result' = [op |-> "list_ledgers", err |-> "none", queries |-> 1, rows |-> rows]

\* main, Commands::ListLedgers
ListLedgers ==
    /\ result = Idle
    /\ list_ledgers
    /\ UNCHANGED <<store, now, sessions>>

RecentLimit == 10

\* the SELECT list of the query, for the posting p
RecentRow(p) ==
    [id |-> p.id, created_at |-> p.created_at, cr_from_code |-> CodeOf(p.cr_from),
     db_to_code |-> CodeOf(p.db_to), amount |-> p.amount]

\* LIMIT 10
Limit(s, n) == SubSeq(s, 1, IF Len(s) < n THEN Len(s) ELSE n)

\* ... FROM proceedings p ORDER BY p.created_at DESC LIMIT 10
generate_recent_transactions_report ==
    \E rows \in OrderedByCreatedAtDesc({RecentRow(proceedings[i]) : i \in DOMAIN proceedings}) :
       result' = [op |-> "last", err |-> "none", queries |-> 1,
                  rows |-> Limit(rows, RecentLimit)]

\* main, Commands::Last
Last ==
    /\ result = Idle
    /\ generate_recent_transactions_report
    /\ UNCHANGED <<store, now, sessions>>

\* a faulty setup that drops the tables before it creates them
setup_dbMutant(batchOk) ==
    /\ result' = [op |-> "db_setup", err |-> IF batchOk THEN "none" ELSE "Database",
                  queries |-> 1]
    /\ ledgers' = IF batchOk THEN {} ELSE ledgers
    /\ proceedings' = IF batchOk THEN <<>> ELSE proceedings

\* CREATE TABLE IF NOT EXISTS ledgers ...; CREATE TABLE IF NOT EXISTS
\* proceedings ...: the tables are there, and stay as they are
setup_db(batchOk) ==
    /\ result' = [op |-> "db_setup", err |-> IF batchOk THEN "none" ELSE "Database",
                  queries |-> 1]
    /\ UNCHANGED <<ledgers, proceedings>>

\* main, Commands::DbSetup
DbSetup ==
    /\ result = Idle
    /\ \E batchOk \in BOOLEAN : setup_db(batchOk)
    /\ UNCHANGED <<nextLedgerId, nextProceedingId, now, sessions>>

(***************************************************************************)
(* clear                                                                   *)
(***************************************************************************)
\* what a clear reports; confirmed is the answer to the prompt
ClearResult(confirmed, err, queries) ==
    [op |-> "clear", err |-> err, queries |-> queries, confirmed |-> confirmed]

\* a faulty clear_tables without the second DELETE
clear_tablesMutant(delProceedingsOk, delLedgersOk) ==
    IF ~delProceedingsOk
    THEN /\ result' = ClearResult(TRUE, "Database", 1)
         /\ UNCHANGED <<ledgers, proceedings>>
    ELSE /\ proceedings' = <<>>
         /\ result' = ClearResult(TRUE, "none", 2)
         /\ UNCHANGED ledgers

\* DELETE FROM proceedings, then DELETE FROM ledgers, each its own statement
clear_tables(delProceedingsOk, delLedgersOk) ==
    IF ~delProceedingsOk
    THEN /\ result' = ClearResult(TRUE, "Database", 1)
         /\ UNCHANGED <<ledgers, proceedings>>
    ELSE IF ~delLedgersOk
    THEN /\ proceedings' = <<>>
         /\ result' = ClearResult(TRUE, "Database", 2)
         /\ UNCHANGED ledgers
    ELSE /\ proceedings' = <<>>
         /\ ledgers' = {}
         /\ result' = ClearResult(TRUE, "none", 2)

\* main, Commands::Clear: the prompt defaults to "no", and an answer that
\* cannot be read counts as "no" (unwrap_or(false))
Clear ==
    /\ result = Idle
    /\ \E confirmed \in BOOLEAN, delProceedingsOk \in BOOLEAN, delLedgersOk \in BOOLEAN :
          IF confirmed
          THEN clear_tables(delProceedingsOk, delLedgersOk)
          ELSE /\ result' = ClearResult(FALSE, "none", 0)
               /\ UNCHANGED <<ledgers, proceedings>>
    /\ UNCHANGED <<nextLedgerId, nextProceedingId, now, sessions>>

(***************************************************************************)
(* The clock (Utc::now and the store's CURRENT_TIMESTAMP) moves forward    *)
(* between invocations.                                                    *)
(***************************************************************************)
Tick ==
    /\ result = Idle
    /\ \E t \in Instants : t > now /\ now' = t
    /\ UNCHANGED <<store, result, sessions>>

\* main returns: Ok(()) is exit status 0, Err(e) a non-zero one
Exit ==
    /\ result # Idle
    /\ result' = Idle
    /\ UNCHANGED <<store, now, sessions>>

Init ==
    /\ ledgers = {}
    /\ proceedings = <<>>
    /\ nextLedgerId = 1
    /\ nextProceedingId = 1
    /\ now = FirstInstant
    /\ result = Idle
    /\ sessions = NoSessions

Next ==
    \/ AddLedger
    \/ Spend
    \/ Report
    \/ LedgerReport
    \/ Calendar
    \/ ListLedgers
    \/ Last
    \/ DbSetup
    \/ Clear
    \/ Tick
    \/ Exit

Spec == Init /\ [][Next]_vars

(***************************************************************************)
(* Two invocations at the same time.  Each statement an invocation sends   *)
(* is one step (the client is in autocommit mode; nothing opens a          *)
(* transaction); between two statements of one invocation the other may    *)
(* send its own.  The store enforces the foreign keys of setup_db:         *)
(* cr_from and db_to REFERENCES ledgers(id), with no ON DELETE action.     *)
(***************************************************************************)
\* a table created without the REFERENCES clauses
ReferencedMutant(l) == FALSE

\* a posting references the ledger l: DELETE of l is refused
Referenced(l) ==
    \E i \in DOMAIN proceedings :
       proceedings[i].cr_from = l.id \/ proceedings[i].db_to = l.id

\* the ledgers the row p references exist: else INSERT of p is refused
ForeignKeysHold(p) ==
    /\ \E l \in ledgers : l.id = p.cr_from
    /\ \E l \in ledgers : l.id = p.db_to

\* spends that have begun and not ended
SpendsInFlight == {s \in Sessions : sessions[s].op = "spend" /\ sessions[s].pc # "idle"}

\* add-ledger is one statement
SessionAddLedger ==
    /\ nextLedgerId <= MaxLedgers
    /\ \E s \in Sessions, in \in LedgerInputs, insertOk \in BOOLEAN :
          /\ sessions[s].pc = "idle"
          /\ IF insertOk
             THEN /\ ledgers' = ledgers \cup
                        {[id |-> nextLedgerId, code |-> in[1], kind |-> in[2]]}
                  /\ nextLedgerId' = nextLedgerId + 1
                  /\ sessions' = [sessions EXCEPT ![s] = Ended("add_ledger", "none")]
             ELSE /\ UNCHANGED <<ledgers, nextLedgerId>>
                  /\ sessions' = [sessions EXCEPT ![s] = Ended("add_ledger", "Database")]
    /\ UNCHANGED <<proceedings, nextProceedingId, now, result>>

\* spend begins: proceed_spend's test of the amount
SessionSpend ==
    /\ nextProceedingId + Cardinality(SpendsInFlight) <= MaxProceedings
    /\ \E s \in Sessions, patron \in Codes, outlay \in Codes, amount \in Amounts :
          /\ sessions[s].pc = "idle"
          /\ sessions' = [sessions EXCEPT ![s] =
                IF InvalidAmount(amount) THEN Ended("spend", "InvalidAmount")
                ELSE [pc |-> "patron", op |-> "spend", err |-> "none",
                      patron |-> patron, outlay |-> outlay, amount |-> amount,
                      patron_id |-> 0, outlay_id |-> 0]]
    /\ UNCHANGED <<store, now, result>>

\* let patron_id = self.retrieve_ledger_id(patron)?
SessionPatron ==
    /\ \E s \in Sessions :
          /\ sessions[s].pc = "patron"
          /\ LET patron_id == retrieve_ledger_id(sessions[s].patron)
             IN  sessions' = [sessions EXCEPT ![s] =
                    IF patron_id.err # "none" THEN Ended("spend", patron_id.err)
                    ELSE [@ EXCEPT !.pc = "outlay", !.patron_id = patron_id.id]]
    /\ UNCHANGED <<store, now, result>>

\* let outlay_id = self.retrieve_ledger_id(outlay)?
SessionOutlay ==
    /\ \E s \in Sessions :
          /\ sessions[s].pc = "outlay"
          /\ LET outlay_id == retrieve_ledger_id(sessions[s].outlay)
             IN  sessions' = [sessions EXCEPT ![s] =
                    IF outlay_id.err # "none" THEN Ended("spend", outlay_id.err)
                    ELSE [@ EXCEPT !.pc = "insert", !.outlay_id = outlay_id.id]]
    /\ UNCHANGED <<store, now, result>>

\* INSERT INTO proceedings ... (without --date)
SessionInsert ==
    /\ \E s \in Sessions, insertOk \in BOOLEAN :
          /\ sessions[s].pc = "insert"
          /\ LET row == InsertedRow(sessions[s].patron_id, sessions[s].outlay_id,
                                    sessions[s].amount, [some |-> FALSE, at |-> 0])
             IN  IF insertOk /\ ForeignKeysHold(row)
                 THEN /\ proceedings' = Append(proceedings, row)
                      /\ nextProceedingId' = nextProceedingId + 1
                      /\ sessions' = [sessions EXCEPT ![s] = Ended("spend", "none")]
                 ELSE /\ UNCHANGED <<proceedings, nextProceedingId>>
                      /\ sessions' = [sessions EXCEPT ![s] = Ended("spend", "Database")]
    /\ UNCHANGED <<ledgers, nextLedgerId, now, result>>

\* clear begins: the prompt is answered with yes
SessionClear ==
    /\ \E s \in Sessions :
          /\ sessions[s].pc = "idle"
          /\ sessions' = [sessions EXCEPT ![s] =
                [Ended("clear", "none") EXCEPT !.pc = "delete_proceedings"]]
    /\ UNCHANGED <<store, now, result>>

\* DELETE FROM proceedings
SessionDeleteProceedings ==
    /\ \E s \in Sessions, deleteOk \in BOOLEAN :
          /\ sessions[s].pc = "delete_proceedings"
          /\ IF deleteOk
             THEN /\ proceedings' = <<>>
                  /\ sessions' = [sessions EXCEPT ![s].pc = "delete_ledgers"]
             ELSE /\ UNCHANGED proceedings
                  /\ sessions' = [sessions EXCEPT ![s] = Ended("clear", "Database")]
    /\ UNCHANGED <<ledgers, nextLedgerId, nextProceedingId, now, result>>

\* DELETE FROM ledgers
SessionDeleteLedgers ==
    /\ \E s \in Sessions, deleteOk \in BOOLEAN :
          /\ sessions[s].pc = "delete_ledgers"
          /\ IF deleteOk /\ ~\E l \in ledgers : Referenced(l)
             THEN /\ ledgers' = {}
                  /\ sessions' = [sessions EXCEPT ![s] = Ended("clear", "none")]
             ELSE /\ UNCHANGED ledgers
                  /\ sessions' = [sessions EXCEPT ![s] = Ended("clear", "Database")]
    /\ UNCHANGED <<proceedings, nextLedgerId, nextProceedingId, now, result>>

NextSessions ==
    \/ SessionAddLedger
    \/ SessionSpend
    \/ SessionPatron
    \/ SessionOutlay
    \/ SessionInsert
    \/ SessionClear
    \/ SessionDeleteProceedings
    \/ SessionDeleteLedgers

SpecSessions == Init /\ [][NextSessions]_vars

(***************************************************************************)
(* The calendar's month and year, for every name of a month at clock       *)
(* readings all over two years (2024 is a leap year): calendar invocations *)
(* on an empty store.                                                      *)
(***************************************************************************)
YearInstants ==
    {AndHms(DaysFromCivil(y, m, d), 12, 30, 15) :
        y \in {2024, 2025}, m \in 1..12, d \in {1, 28}}
      \cup {AndHms(DaysFromCivil(y, 12, 31), h, 59, 59) : y \in {2024, 2025}, h \in {0, 23}}
      \cup {AndHms(DaysFromCivil(2024, 2, 29), 0, 0, 0)}

YearMonthTexts ==
    {"january", "february", "march", "april", "may", "june", "july", "august",
     "september", "october", "november", "december",
     "JUNE", "June", "DECEMBER", "smarch", "jun", NoArg}

CalendarOfMonth ==
    /\ result = Idle
    /\ \E m \in YearMonthTexts : calendar(CalendarArg(m, NoArg))
    /\ UNCHANGED <<store, now, sessions>>

InitYear ==
    /\ ledgers = {}
    /\ proceedings = <<>>
    /\ nextLedgerId = 1
    /\ nextProceedingId = 1
    /\ now \in YearInstants
    /\ result = Idle
    /\ sessions = NoSessions

NextYear ==
    \/ CalendarOfMonth
    \/ Exit

SpecYear == InitYear /\ [][NextYear]_vars

(***************************************************************************)
(* What the specification says, stated apart from the code above.          *)
(***************************************************************************)
\* the ledgers that have the code c
WithCode(c) == {l \in ledgers : l.code = c}

\* the step is the invocation of op (from the idle prompt to its result)
Invokes(op) == result = Idle /\ result'.op = op

\* the spend reached proceed_spend (main had no malformed --date to reject)
SpendProceeded(r) == r.op = "spend" /\ r.err # "InvalidDate"

\* C1: a spend with amount <= 0 fails with InvalidAmount, asks the store
\* nothing and leaves ledgers and postings as they were, whatever the codes.
C1_InvalidAmountNoWrite ==
    [][(Invokes("spend") /\ SpendProceeded(result') /\ result'.amount <= 0)
          => /\ result'.err = "InvalidAmount"
             /\ result'.queries = 0
             /\ ledgers' = ledgers
             /\ proceedings' = proceedings]_vars

\* C1 happens with codes that would both have resolved
C1_Witness ==
    /\ result.op = "spend"
    /\ result.err = "InvalidAmount"
    /\ result.amount < 0
    /\ Cardinality(WithCode(result.patron)) = 1
    /\ Cardinality(WithCode(result.outlay)) = 1
    /\ result.patron # result.outlay

\* C2: a spend either succeeds, adding exactly one posting from the patron's
\* ledger to the outlay's ledger and leaving the ledgers alone, or fails and
\* changes nothing in the store.
C2_PostingAtomic ==
    [][Invokes("spend")
          => \/ /\ result'.err = "none"
                /\ ledgers' = ledgers
                /\ Len(proceedings') = Len(proceedings) + 1
                /\ SubSeq(proceedings', 1, Len(proceedings)) = proceedings
                /\ \E cr \in WithCode(result'.patron), db \in WithCode(result'.outlay) :
                      /\ WithCode(result'.patron) = {cr}
                      /\ WithCode(result'.outlay) = {db}
                      /\ proceedings'[Len(proceedings')].cr_from = cr.id
                      /\ proceedings'[Len(proceedings')].db_to = db.id
                      /\ proceedings'[Len(proceedings')].amount = result'.amount
             \/ /\ result'.err # "none"
                /\ ledgers' = ledgers
                /\ proceedings' = proceedings]_vars

\* C2 happens: a posting between two different ledgers has been written
C2_Witness ==
    /\ result.op = "spend"
    /\ result.err = "none"
    /\ result.patron # result.outlay
    /\ Len(proceedings) = 2

\* C3: resolving a code that no ledger has fails with LedgerNotFound, in a
\* ledger report and for the patron or the outlay of a spend.
C3_UnknownCodeIsLedgerNotFound ==
    /\ (/\ result.op = "ledger_report"
        /\ result.queries >= 1
        /\ WithCode(result.code) = {})
          => result.err = "LedgerNotFound"
    /\ (/\ SpendProceeded(result)
        /\ result.amount > 0
        /\ WithCode(result.patron) = {} \/ WithCode(result.outlay) = {})
          => result.err = "LedgerNotFound"

\* C4: once add_ledger(code) has succeeded the code resolves, and a code that
\* resolves keeps resolving to the same id over every step but a clear.
C4_ResolveRoundTrip ==
    [][result'.op # "clear"
          => \A c \in Codes :
                /\ (Invokes("add_ledger") /\ result'.err = "none" /\ result'.code = c)
                      => retrieve_ledger_id(c)'.err = "none"
                /\ retrieve_ledger_id(c).err = "none"
                      => retrieve_ledger_id(c)' = retrieve_ledger_id(c)]_vars

\* sum of the amounts of the postings numbered by S
RECURSIVE AmountOver(_)
AmountOver(S) ==
    IF S = {} THEN 0
    ELSE LET i == CHOOSE j \in S : TRUE
         IN  proceedings[i].amount + AmountOver(S \ {i})

\* the postings among S that debit, and that credit, the ledger with this id
DebitsOf(id, S) == {i \in S : proceedings[i].db_to = id}

CreditsOf(id, S) == {i \in S : proceedings[i].cr_from = id}

\* the postings inside the window [start, end], or [start, open) without end
PostingsIn(start, hasEnd, end) ==
    {i \in DOMAIN proceedings :
        /\ proceedings[i].created_at >= start
        /\ hasEnd => proceedings[i].created_at <= end}

\* the net balance of the all-ledgers report over the postings S:
\* debits minus credits for a LIABILITY, debits alone for any other kind
SpecNet(l, S) ==
    IF l.kind = "LIABILITY"
    THEN AmountOver(DebitsOf(l.id, S)) - AmountOver(CreditsOf(l.id, S))
    ELSE AmountOver(DebitsOf(l.id, S))

\* the rows of a report, as a set
RowsOf(r) == {r.rows[i] : i \in DOMAIN r.rows}

\* the all-ledgers report shows one row per ledger, with these amounts
ShowsNet(r, S) ==
    /\ Len(r.rows) = Cardinality(ledgers)
    /\ \A l \in ledgers :
          \E row \in RowsOf(r) : row.id = l.id /\ row.amount = SpecNet(l, S)

ReportDone(op, kind) ==
    result.op = op /\ result.err = "none" /\ result.period.kind = kind

\* 00:00:00 of a day
Midnight(day) == day * 86400

\* C5: the Week window starts at 00:00:00 of the Monday on or before now and
\* is open, so every posting of that Monday is inside it.
C5_WeekStartsMondayMidnight ==
    (ReportDone("report", "Week") \/ ReportDone("ledger_report", "Week"))
       => LET monday == CHOOSE d \in (DayOf(now) - 6)..DayOf(now) : (d + 3) % 7 = 0
          IN  /\ result.window.start = Midnight(monday)
              /\ ~result.window.hasEnd
              /\ ReportDone("report", "Week")
                    => ShowsNet(result, PostingsIn(Midnight(monday), FALSE, 0))

\* C6 as stated: FromTo with from > to fails with DateRangeError before any
\* query, in the all-ledgers report and in the per-ledger report.
C6_RangeErrorBeforeAnyQuery ==
    (/\ result.op \in {"report", "ledger_report"}
     /\ result.period.kind = "FromTo"
     /\ ParseDate(result.period.from).ok
     /\ ParseDate(result.period.to).ok
     /\ ParseDate(result.period.from).day > ParseDate(result.period.to).day)
       => result.err = "DateRangeError" /\ result.queries = 0

\* C6 amended: the all-ledgers report fails with DateRangeError before any
\* query; the per-ledger report looks the ledger up first, reports the
\* lookup's error if it fails, and else fails with DateRangeError after the
\* two ledger lookups; neither report queries the postings or prints a row.
C6_RangeErrorBeforePostingsQuery ==
    (/\ result.op \in {"report", "ledger_report"}
     /\ result.period.kind = "FromTo"
     /\ ParseDate(result.period.from).ok
     /\ ParseDate(result.period.to).ok
     /\ ParseDate(result.period.from).day > ParseDate(result.period.to).day)
       => /\ result.rows = <<>>
          /\ result.op = "report"
                => result.err = "DateRangeError" /\ result.queries = 0
          /\ (result.op = "ledger_report" /\ Cardinality(WithCode(result.code)) = 1)
                => result.err = "DateRangeError" /\ result.queries = 2
          /\ (result.op = "ledger_report" /\ Cardinality(WithCode(result.code)) # 1)
                => result.err \notin {"none", "DateRangeError"} /\ result.queries = 1

\* C6 happens in the per-ledger report of a ledger that has postings
C6_Witness ==
    /\ result.op = "ledger_report"
    /\ result.err = "DateRangeError"
    /\ result.queries = 2
    /\ \E l \in WithCode(result.code) :
          DebitsOf(l.id, DOMAIN proceedings) # {}

\* C7: with FromTo(from, to), from <= to, only the postings created from
\* `from` 00:00:00 to `to` 23:59:59 count: they alone make up the amounts of
\* the all-ledgers report and the rows of the per-ledger statement.
C7_FromToWindowIsClosed ==
    (ReportDone("report", "FromTo") \/ ReportDone("ledger_report", "FromTo"))
       => LET start == Midnight(ParseDate(result.period.from).day)
              end   == Midnight(ParseDate(result.period.to).day) + 86399
          IN  /\ ReportDone("report", "FromTo")
                    => ShowsNet(result, PostingsIn(start, TRUE, end))
              /\ ReportDone("ledger_report", "FromTo")
                    => \A row \in RowsOf(result) :
                          row.created_at >= start /\ row.created_at <= end

\* C8: in the all-ledgers report the net of a LIABILITY ledger is its
\* in-window debits minus its in-window credits, the net of any other ledger
\* its in-window debits, and so 0 for a ledger without in-window postings.
C8_NetSignConvention ==
    (result.op = "report" /\ result.err = "none")
       => ShowsNet(result, PostingsIn(result.window.start, result.window.hasEnd,
                                      result.window.end))

\* C9: in the per-ledger statement total_credits and total_debits are the
\* sums over the in-window postings that credit and that debit the ledger,
\* these are the sums over the displayed rows, and net_balance is
\* total_debits - total_credits.
C9_StatementTotals ==
    (result.op = "ledger_report" /\ result.err = "none")
       => \E l \in WithCode(result.code) :
             LET S == PostingsIn(result.window.start, result.window.hasEnd,
                                 result.window.end)
             IN  /\ result.totals[1] = AmountOver(CreditsOf(l.id, S))
                 /\ result.totals[2] = AmountOver(DebitsOf(l.id, S))
                 /\ result.totals[3] = result.totals[2] - result.totals[1]
                 /\ {row.id : row \in RowsOf(result)}
                       = {proceedings[i].id : i \in CreditsOf(l.id, S) \cup DebitsOf(l.id, S)}
                 /\ Len(result.rows) = Cardinality(RowsOf(result))
                 /\ result.totals[1] = SumField(result.rows, "credit_amount")
                 /\ result.totals[2] = SumField(result.rows, "debit_amount")

\* C9 happens with a credit and a debit of different amounts on display and
\* another posting of the ledger outside the window
C9_Witness ==
    /\ result.op = "ledger_report"
    /\ result.err = "none"
    /\ result.totals[1] > 0
    /\ result.totals[2] > 0
    /\ result.totals[3] # 0
    /\ result.window.hasEnd

\* the postings a report of today counts: those of today's date (a posting
\* with a date yet to come is no posting recorded at an instant; the open
\* window takes it in)
CountedToday ==
    {i \in DOMAIN proceedings :
        \/ DayOf(proceedings[i].created_at) = DayOf(now)
        \/ proceedings[i].created_at > now}

\* C10: a Today report counts a posting recorded at instant t iff it is
\* issued on t's UTC day (its window starts at 00:00:00 of the report day and
\* is open); an All report counts every posting.
C10_TodayWindow ==
    /\ ReportDone("report", "Today")
          => /\ result.window.start = Midnight(DayOf(now))
             /\ ~result.window.hasEnd
             /\ ShowsNet(result, CountedToday)
    /\ ReportDone("report", "All")
          => ShowsNet(result, DOMAIN proceedings)

\* C10 happens: a Today report that counts a posting made earlier the same
\* day and leaves out one of the day before
C10_Witness ==
    /\ ReportDone("report", "Today")
    /\ \E i, j \in DOMAIN proceedings :
          /\ DayOf(proceedings[i].created_at) < DayOf(now)
          /\ DayOf(proceedings[j].created_at) = DayOf(now)
          /\ proceedings[j].created_at < now
          /\ \E row \in RowsOf(result) :
                row.id = proceedings[j].db_to /\ row.amount = proceedings[j].amount

\* which of (period, --date, --from, --to) a request carries
ShapeOf(a) ==
    <<a.period # NoPeriod, a.date # NoDate, a.from # NoDate, a.to # NoDate>>

\* period only; date only; from and to together; nothing
AcceptedShapes ==
    {<<TRUE, FALSE, FALSE, FALSE>>, <<FALSE, TRUE, FALSE, FALSE>>,
     <<FALSE, FALSE, TRUE, TRUE>>, <<FALSE, FALSE, FALSE, FALSE>>}

\* the period an accepted request asks for
RequestedPeriod(a) ==
    CASE ShapeOf(a) = <<TRUE, FALSE, FALSE, FALSE>>  -> a.period
      [] ShapeOf(a) = <<FALSE, TRUE, FALSE, FALSE>>  -> Period("Date", a.date, NoDate, NoDate)
      [] ShapeOf(a) = <<FALSE, FALSE, TRUE, TRUE>>   -> Period("FromTo", NoDate, a.from, a.to)
      [] ShapeOf(a) = <<FALSE, FALSE, FALSE, FALSE>> -> Period("All", NoDate, NoDate, NoDate)

\* C11: of the 16 present/absent combinations of (period, --date, --from,
\* --to) of report and ledger-report, the four accepted ones go on with the
\* period they name (nothing means All); every other one fails with
\* InvalidDate before any query of the store.
C11_RequestShapes ==
    result.op \in {"report", "ledger_report"}
       => IF ShapeOf(result.args) \in AcceptedShapes
          THEN result.period = RequestedPeriod(result.args)
          ELSE /\ result.err = "InvalidDate"
               /\ result.queries = 0
               /\ result.period = NoPeriod
               /\ result.rows = <<>>

\* C11 happens: a period together with a full range is refused for a ledger
\* that exists and has postings
C11_Witness ==
    /\ result.op = "ledger_report"
    /\ ShapeOf(result.args) = <<TRUE, FALSE, TRUE, TRUE>>
    /\ result.err = "InvalidDate"
    /\ \E l \in WithCode(result.code) :
          WithCode(result.code) = {l} /\ DebitsOf(l.id, DOMAIN proceedings) # {}

\* the postings created at some instant of the day
PostingsOfDay(day) ==
    {i \in DOMAIN proceedings : DayOf(proceedings[i].created_at) = day}

\* C12: a spend with explicit date d stores created_at = d 00:00:00; the
\* window of a report for --date e is [e 00:00:00, e 23:59:59], so a posting
\* stored at d 00:00:00 is inside it iff d = e, and the report counts the
\* postings of the day e and no other.
C12_ExplicitDateInItsDayOnly ==
    /\ [][(Invokes("spend") /\ result'.err = "none" /\ result'.date # NoDate)
             => proceedings'[Len(proceedings')].created_at
                   = Midnight(ParseDate(result'.date).day)]_vars
    /\ [](ReportDone("report", "Date")
             => LET e == ParseDate(result.period.date).day
                IN  /\ result.window.start = Midnight(e)
                    /\ result.window.hasEnd
                    /\ result.window.end = Midnight(e) + 86399
                    /\ \A i \in DOMAIN proceedings :
                          \A d \in DayOf(now) - 1 .. DayOf(now) + 1 :
                             proceedings[i].created_at = Midnight(d)
                                => (i \in PostingsIn(result.window.start, TRUE,
                                                     result.window.end)  <=>  d = e)
                    /\ ShowsNet(result, PostingsOfDay(e)))

\* C12 happens: a report for tomorrow's date counts the posting dated
\* tomorrow and leaves out the one dated today
C12_Witness ==
    /\ ReportDone("report", "Date")
    /\ ParseDate(result.period.date).day = DayOf(now) + 1
    /\ \E i, j \in DOMAIN proceedings :
          /\ proceedings[i].created_at = Midnight(DayOf(now) + 1)
          /\ proceedings[j].created_at = Midnight(DayOf(now))
          /\ proceedings[i].amount # proceedings[j].amount
          /\ proceedings[i].db_to = proceedings[j].db_to
          /\ \E row \in RowsOf(result) :
                row.id = proceedings[i].db_to /\ row.amount = proceedings[i].amount

CalendarDone == result.op = "calendar" /\ result.err = "none"

\* the days of the target month that have begun
InTargetWindow(day) ==
    /\ CivilFromDays(day).year = result.target.year
    /\ CivilFromDays(day).month = result.target.month
    /\ day <= DayOf(now)

\* the daily amount, in the sign convention of the all-ledgers report: the
\* nets of all ledgers over the postings of the day
SpecDaily(day) ==
    LET net[L \in SUBSET ledgers] ==
            IF L = {} THEN 0
            ELSE LET l == CHOOSE x \in L : TRUE
                 IN  SpecNet(l, PostingsOfDay(day)) + net[L \ {l}]
    IN  net[ledgers]

\* the days on display
ShownDays == {row.day : row \in RowsOf(result)}

\* the days looked at: those around now and those with a posting
DaysAround ==
    (DayOf(now) - 1 .. DayOf(now) + 1)
       \cup {DayOf(proceedings[i].created_at) : i \in DOMAIN proceedings}

\* C13: the calendar report displays a day iff the day lies in the target
\* window and its daily amount is not 0, once, with that amount; days without
\* postings and days whose contributions cancel are not displayed; the grand
\* total is the sum over the displayed days.
C13_DisplayedDays ==
    CalendarDone
       => /\ ShownDays \subseteq DaysAround
          /\ \A day \in DaysAround :
                day \in ShownDays <=> (InTargetWindow(day) /\ SpecDaily(day) # 0)
          /\ Len(result.rows) = Cardinality(ShownDays)
          /\ \A row \in RowsOf(result) : row.daily_amount = SpecDaily(row.day)
          /\ result.totals[1] = SumField(result.rows, "daily_amount")

\* C13 happens: one day is displayed, and another day of the window has
\* postings that cancel
C13_Witness ==
    /\ CalendarDone
    /\ result.rows # <<>>
    /\ \E i \in DOMAIN proceedings :
          /\ InTargetWindow(DayOf(proceedings[i].created_at))
          /\ DayOf(proceedings[i].created_at) \notin ShownDays

\* the sum over the rows numbered by I of the part of cap above the daily
\* amount
RECURSIVE SpecSkimp(_, _)
SpecSkimp(I, cap) ==
    IF I = {} THEN 0
    ELSE LET i == CHOOSE x \in I : TRUE
             under == cap - result.rows[i].daily_amount
         IN  (IF under > 0 THEN under ELSE 0) + SpecSkimp(I \ {i}, cap)

\* C14: with a cap the total skimp of the calendar report is the sum, over
\* the displayed days, of cap - daily_amount where that is > 0; without a cap
\* (and with a cap that is no number) it is 0.
C14_TotalSkimp ==
    CalendarDone
       => result.totals[2] =
             IF result.cap.some /\ ~result.cap.val.nan
             THEN SpecSkimp(DOMAIN result.rows, result.cap.val.v)
             ELSE 0

\* C14 happens: a day under the cap and a day exactly at the cap
C14_Witness ==
    /\ CalendarDone
    /\ result.cap = SomeCap(F64(50))
    /\ Len(result.rows) = 2
    /\ result.rows[1].daily_amount = 50
    /\ result.rows[2].daily_amount = 30
    /\ result.totals[2] = 20

\* the cap texts that are a positive number
PositiveNumerals == {"50"}

\* the text given as the cap: the second argument, or the only argument when
\* it is not a word
CapGiven(a) ==
    IF a.cap # NoArg THEN a.cap
    ELSE IF a.month \in {"nan", "0", "-5", "50"} THEN a.month
    ELSE NoArg

\* C16: a calendar request whose cap is not a positive number (not a number,
\* zero or negative), after a month or as the only argument, fails with
\* InvalidCap and sends no query.
C16_BadCapIsInvalidCap ==
    (/\ result.op = "calendar"
     /\ CapGiven(result.args) # NoArg
     /\ CapGiven(result.args) \notin PositiveNumerals)
       => result.err = "InvalidCap" /\ result.queries = 0

\* C19 as stated: every net of the all-ledgers report and every daily amount
\* of the calendar report is >= 0.
C19_ReportedAmountsNonNegative ==
    /\ (result.op = "report" /\ result.err = "none")
          => \A row \in RowsOf(result) : row.amount >= 0
    /\ CalendarDone
          => \A row \in RowsOf(result) : row.daily_amount >= 0

\* C19 amended: every daily amount of the calendar report is >= 0, and so is
\* the net of every ledger that is no LIABILITY; a net below 0 is that of a
\* LIABILITY ledger that some posting credits.
C19_NonLiabilityAmountsNonNegative ==
    /\ (result.op = "report" /\ result.err = "none")
          => \A row \in RowsOf(result) : \E l \in ledgers :
                /\ l.id = row.id
                /\ l.kind # "LIABILITY" => row.amount >= 0
                /\ row.amount < 0
                      => /\ l.kind = "LIABILITY"
                         /\ CreditsOf(l.id, DOMAIN proceedings) # {}
    /\ CalendarDone
          => \A row \in RowsOf(result) : row.daily_amount >= 0

\* C19 happens: a report with a LIABILITY ledger below 0 next to another
\* ledger above 0
C19_Witness ==
    /\ result.op = "report"
    /\ result.err = "none"
    /\ \E r1, r2 \in RowsOf(result) : r1.amount < 0 /\ r2.amount > 0

\* the spellings of the names of the months, by number
MonthSpellings ==
    << {"january"}, {"february"}, {"march"}, {"april"}, {"may"},
       {"june", "JUNE", "June"}, {"july"}, {"august"}, {"september"},
       {"october"}, {"november"}, {"december", "DECEMBER"} >>

\* the numbers of the months a text names (none or one)
NamedMonths(s) == {n \in 1..12 : s \in MonthSpellings[n]}

\* C15: the calendar of a named month m is that of m in the current year,
\* or in the year before when m's number is greater than the current
\* month's; with no month it is that of the current month and year; so the
\* first day of the target month is never after now; a text that names no
\* month fails with InvalidMonth before any query.
C15_YearInference ==
    (result.op = "calendar" /\ result.args.cap = NoArg)
       => LET current == CivilFromDays(DayOf(now))
              m == result.args.month
          IN  /\ m = NoArg
                    => /\ result.err = "none"
                       /\ result.target.month = current.month
                       /\ result.target.year = current.year
              /\ \A n \in NamedMonths(m) :
                    /\ result.err = "none"
                    /\ result.target.month = n
                    /\ result.target.year =
                          IF n > current.month THEN current.year - 1 ELSE current.year
              /\ (m # NoArg /\ NamedMonths(m) = {})
                    => result.err = "InvalidMonth" /\ result.queries = 0
              /\ result.err = "none"
                    => /\ result.start = Midnight(DaysFromCivil(result.target.year,
                                                                result.target.month, 1))
                       /\ result.start <= now

\* C15 happens: December asked for in January is December of the year before
C15_Witness ==
    /\ result.op = "calendar"
    /\ result.args.month = "DECEMBER"
    /\ CivilFromDays(DayOf(now)) = [year |-> 2025, month |-> 1, day |-> 28]
    /\ result.target.year = 2024
    /\ result.target.month = 12

\* the postings in the store
Postings == {proceedings[i] : i \in DOMAIN proceedings}

\* C17 as stated: over any sequence of the CLI operations every posting of
\* one state is there, with the same cr_from, db_to, amount and created_at,
\* in every later state.
C17_PostingsAppendOnly ==
    [][Postings \subseteq Postings']_vars

\* C17 amended: every step but a confirmed clear keeps every posting as it
\* is; a confirmed clear removes every posting when its DELETE FROM
\* proceedings succeeds and none when it fails.
C17_PostingsKeptButByClear ==
    [][/\ ~(result'.op = "clear" /\ result'.queries >= 1)
             => Postings \subseteq Postings'
       /\ (result'.op = "clear" /\ result'.queries >= 1)
             => \/ proceedings' = proceedings /\ result'.err = "Database"
                \/ proceedings' = <<>>]_vars

\* C17 happens: a clear has removed the postings there were, and its second
\* DELETE has failed
C17_Witness ==
    /\ result.op = "clear"
    /\ result.err = "Database"
    /\ result.queries = 2
    /\ proceedings = <<>>
    /\ nextProceedingId > MaxProceedings
    /\ ledgers # {}

\* the ledger at the other end of the posting p from the ledger with this id
OtherEnd(id, p) == IF p.cr_from = id THEN p.db_to ELSE p.cr_from

\* C20: the rows of the statement of the ledger L are the in-window postings
\* that credit or debit L, each once, and the counterparty of every row is
\* the code of the end of the posting that is not L, the code of a ledger
\* other than L, also for a posting from a ledger to itself.
C20_CounterpartyIsTheOtherLedger ==
    (result.op = "ledger_report" /\ result.err = "none")
       => \E l \in WithCode(result.code) :
             LET S == PostingsIn(result.window.start, result.window.hasEnd,
                                 result.window.end)
                 mine == CreditsOf(l.id, S) \cup DebitsOf(l.id, S)
             IN  /\ {row.id : row \in RowsOf(result)} = {proceedings[i].id : i \in mine}
                 /\ Len(result.rows) = Cardinality(mine)
                 /\ \A row \in RowsOf(result) : \E i \in mine :
                       /\ proceedings[i].id = row.id
                       /\ \E other \in ledgers \ {l} :
                             /\ other.id = OtherEnd(l.id, proceedings[i])
                             /\ row.counterparty = other.code

\* C18: in every state reached by add-ledger, spend and confirmed clear,
\* one after the other or two at the same time, cr_from and db_to of every
\* posting are ids of ledgers that exist; a clear that fails half way leaves
\* no posting that points at a deleted ledger.
C18_ReferentialIntegrity ==
    \A i \in DOMAIN proceedings :
       /\ \E l \in ledgers : l.id = proceedings[i].cr_from
       /\ \E l \in ledgers : l.id = proceedings[i].db_to

\* C18 happens: a spend has inserted its posting between the two DELETEs of
\* a clear
C18_Witness ==
    /\ proceedings # <<>>
    /\ \E s, t \in Sessions :
          /\ sessions[s].pc = "delete_ledgers"
          /\ sessions[t] = Ended("spend", "none")

\* C21: a clear that is declined (or whose prompt cannot be answered) ends
\* well and leaves ledgers and postings as they were; a confirmed clear whose
\* two deletes succeed leaves no posting and no ledger, after which no code
\* resolves, and every spend and ledger report that looks one up fails, until
\* an add-ledger succeeds.
C21_ClearGuardedByConfirmation ==
    /\ [][Invokes("clear")
             => /\ ~result'.confirmed
                     => /\ result'.err = "none"
                        /\ result'.queries = 0
                        /\ ledgers' = ledgers
                        /\ proceedings' = proceedings
                /\ (result'.confirmed /\ result'.err = "none")
                     => ledgers' = {} /\ proceedings' = <<>>]_vars
    /\ [][(ledgers = {} /\ ledgers' # {})
             => (Invokes("add_ledger") /\ result'.err = "none")]_vars
    /\ [](ledgers = {}
             => /\ \A c \in Codes : retrieve_ledger_id(c).err # "none"
                /\ (result.op = "ledger_report" /\ result.queries >= 1)
                      => result.err # "none"
                /\ (result.op = "spend" /\ result.queries >= 1)
                      => result.err # "none")

\* C21 happens: a confirmed clear has emptied a store that had ledgers and
\* postings
C21_Witness ==
    /\ result.op = "clear"
    /\ result.confirmed
    /\ result.err = "none"
    /\ ledgers = {}
    /\ proceedings = <<>>
    /\ nextLedgerId > MaxLedgers
    /\ nextProceedingId > MaxProceedings

\* the figure of a per-ledger statement that the all-ledgers report shows for
\* a ledger of this kind: net_balance for a LIABILITY, total_debits otherwise
StatementFigure(l, totals) ==
    IF l.kind = "LIABILITY" THEN totals[3] ELSE totals[2]

ConsistentPeriods == {"Today", "Week", "Month", "All", "Date"}

\* C22: for every ledger L and every period among Today, Week, Month, All and
\* Date(d), at the same now over the same postings, the all-ledgers net of L
\* equals the statement's net_balance when L is a LIABILITY and the
\* statement's total_debits when it is not.
C22_CrossReportConsistency ==
    /\ (/\ result.op = "report"
        /\ result.err = "none"
        /\ result.period.kind \in ConsistentPeriods)
          => \A l \in ledgers :
                \E row \in RowsOf(result) :
                   /\ row.id = l.id
                   /\ \A rows \in LedgerRows(l.id, result.period,
                                             ResolvePeriod(result.period, now)) :
                         row.amount = StatementFigure(l, LedgerTotals(rows))
    /\ (/\ result.op = "ledger_report"
        /\ result.err = "none"
        /\ result.period.kind \in ConsistentPeriods)
          => \A l \in WithCode(result.code) :
                \A rows \in SpendingRows(result.period,
                                         ResolvePeriod(result.period, now)) :
                   \A i \in DOMAIN rows :
                      rows[i].id = l.id
                         => rows[i].amount = StatementFigure(l, result.totals)

\* C22 happens: a report over a bounded or open window shows a LIABILITY
\* with credits and debits and another ledger whose credits make its
\* net_balance differ from its total_debits
C22_Witness ==
    /\ result.op = "report"
    /\ result.err = "none"
    /\ result.period.kind \in ConsistentPeriods \ {"All"}
    /\ \E l, m \in ledgers :
          /\ l.kind = "LIABILITY"
          /\ m.kind # "LIABILITY"
          /\ \E rl, rm \in RowsOf(result) :
                /\ rl.id = l.id
                /\ rm.id = m.id
                /\ rl.amount # 0
                /\ rm.amount > 0
                /\ \E rows \in LedgerRows(m.id, result.period, result.window) :
                      /\ LedgerTotals(rows)[1] > 0
                      /\ LedgerTotals(rows)[3] # rm.amount

\* the kind of the ledger a posting is funded from
KindOf(id) ==
    IF \E l \in ledgers : l.id = id
    THEN (CHOOSE l \in ledgers : l.id = id).kind
    ELSE "NULL"

\* what the postings of S add to their day: the amount of each posting whose
\* cr_from ledger is no LIABILITY, nothing for the others
RECURSIVE FundedOutsideLiability(_)
FundedOutsideLiability(S) ==
    IF S = {} THEN 0
    ELSE LET i == CHOOSE x \in S : TRUE
         IN  (IF KindOf(proceedings[i].cr_from) = "LIABILITY"
              THEN 0 ELSE proceedings[i].amount)
                + FundedOutsideLiability(S \ {i})

\* the daily amount the calendar query computes for a day (0 for a day the
\* report does not list)
DailyAmountOf(day) ==
    IF \E row \in RowsOf(result) : row.day = day
    THEN (CHOOSE row \in RowsOf(result) : row.day = day).daily_amount
    ELSE 0

\* C23: for each day of the target window the calendar's daily amount is the
\* sum over all ledgers of the all-ledgers net restricted to the postings of
\* that day; each posting adds its amount when its cr_from ledger is no
\* LIABILITY and 0 when it is one, so a day whose only postings are funded
\* from LIABILITY ledgers is not displayed.
C23_DailyAmountIsNetOfTheDay ==
    CalendarDone
       => \A day \in DaysAround :
             InTargetWindow(day)
                => /\ DailyAmountOf(day) = SpecDaily(day)
                   /\ DailyAmountOf(day) = FundedOutsideLiability(PostingsOfDay(day))
                   /\ (\A i \in PostingsOfDay(day) :
                          KindOf(proceedings[i].cr_from) = "LIABILITY")
                         => day \notin ShownDays

\* C23 happens: a day is displayed for a posting funded from a ledger that is
\* no LIABILITY, and another day of the window, whose only posting is funded
\* from a LIABILITY, is not
C23_Witness ==
    /\ CalendarDone
    /\ \E i, j \in DOMAIN proceedings :
          /\ KindOf(proceedings[i].cr_from) = "LIABILITY"
          /\ proceedings[i].db_to # proceedings[i].cr_from
          /\ PostingsOfDay(DayOf(proceedings[i].created_at)) = {i}
          /\ InTargetWindow(DayOf(proceedings[i].created_at))
          /\ DayOf(proceedings[i].created_at) \notin ShownDays
          /\ KindOf(proceedings[j].cr_from) # "LIABILITY"
          /\ DayOf(proceedings[j].created_at) \in ShownDays
          /\ DailyAmountOf(DayOf(proceedings[j].created_at)) = proceedings[j].amount

====
